---- MODULE Spec2Model ----
(***************************************************************************)
(* Backend process supervisor of the Talus Tally desktop shell             *)
(* (frontend/src-tauri/src/lib.rs).                                        *)
(*                                                                         *)
(* Two threads of the application are modelled: the background thread      *)
(* that runs start_backend (spawned once from setup) and the host's main   *)
(* thread, which runs the command handlers and the window-event handler    *)
(* one at a time.  The shared Arc<Mutex<Option<Child>>> is modelled with   *)
(* its holder and its poison flag.  The environment is the OS process      *)
(* table (a stale backend of a previous run, the spawned child), the       *)
(* filesystem, and TCP port 127.0.0.1:5000.                                *)
(*                                                                         *)
(* Paths are sequences of components; an absolute path starts with "/".    *)
(***************************************************************************)
EXTENDS Integers, Sequences, FiniteSets, TLC

VARIABLES
  backend_process,  \* Option<Child> inside the mutex: None or a child id
  lock_holder,      \* thread holding the mutex guard: "free", "start", "main"
  poisoned,         \* mutex poison flag (a holder panicked)
  spc,              \* position of the start_backend thread
  mpc,              \* position of the main thread inside a command
  cmd,              \* exit command the main thread is running
  app,              \* "running", "exiting" (app.exit requested), "ended"
  exited_by,        \* which command issued the exit call(s)
  exit_code,        \* status handed to the exit call: <<>> before any, else <<code>>
  exe_path,         \* result of std::env::current_exe()
  cwd,              \* result of std::env::current_dir()
  fs,               \* set of paths that exist
  stale,            \* process of a previous run holding the port
  reaped,           \* patterns for which pkill has been issued and returned
  slept,            \* milliseconds slept in the settle delay
  project_root,     \* result of determine_project_root()
  spawn_cmd,        \* the Command that was spawned
  spawn_result,     \* "none", "Ok", "Err"
  spawn_attempts,   \* number of spawn() calls
  child_state,      \* spawned child: "none", "running", "listening", "killed"
  kill_calls,       \* number of child.kill() calls
  diag,             \* failure diagnostic written (lines 137-140)
  handle_log,       \* the last two operations that ran on the handle under the lock
  last_connect,     \* result of the last TcpStream::connect
  last_status,      \* value returned by the last backend_status
  pending_close,    \* close requests queued by the host, not yet dispatched
  close_requests,   \* CloseRequested events dispatched to on_window_event
  prevent_calls,    \* api.prevent_close() calls
  emit_calls,       \* window.emit("tauri://close-requested") calls
  window_open,      \* the window exists
  minimized,        \* window is minimized
  maximized         \* window is maximized

vars == <<backend_process, lock_holder, poisoned, spc, mpc, cmd, app,
          exited_by, exit_code, exe_path, cwd, fs, stale, reaped, slept,
          project_root,
          spawn_cmd, spawn_result, spawn_attempts, child_state, kill_calls,
          diag, handle_log, last_connect, last_status, pending_close,
          close_requests, prevent_calls, emit_calls, window_open, minimized,
          maximized>>

startVars == <<spc, reaped, slept, project_root, spawn_cmd, spawn_result,
               spawn_attempts, diag>>
inputVars == <<exe_path, cwd, fs>>
windowVars == <<pending_close, close_requests, prevent_calls, emit_calls,
                window_open, minimized, maximized>>
probeVars == <<last_connect, last_status>>
lockVars == <<backend_process, lock_holder, poisoned, handle_log>>

----------------------------------------------------------------------------
(* Bounds *)

\* close requests the host may raise in one run
MaxClose == 2

----------------------------------------------------------------------------
(* Program constants *)

None == 0
\* the only child this run can spawn (start_backend runs once)
ChildId == 1
SettleMs == 1000

InstalledRoot == <<"/", "opt", "talus-tally">>
PackagedName == <<"talus-tally-backend">>
VenvPython == <<".venv", "bin", "python3">>
BackendDir == <<"backend">>
ModuleArgs == <<"-m", "backend.app">>
SystemPython == <<"python3">>
DaemonEnv == <<"TALUS_DAEMON", "1">>
Dot == <<".">>
\* an Err(_) from current_exe() / current_dir(); also "not yet computed"
NoPath == <<>>
ReapPatterns == <<"python.*backend.app", "talus-tally-backend">>
CloseEvent == "tauri://close-requested"

----------------------------------------------------------------------------
(* Paths *)

\* Path::starts_with: whole-component prefix
StartsWith(p, base) ==
  /\ Len(base) <= Len(p)
  /\ SubSeq(p, 1, Len(base)) = base

\* Path::join
Join(p, rel) == p \o rel

\* Path::parent of an absolute file path
Parent(p) == SubSeq(p, 1, Len(p) - 1)

\* Path::exists
Exists(p, files) == p \in files

\* Path::ancestors: the path itself, then each parent, down to "/"
Ancestors(p) == [i \in 1..Len(p) |-> SubSeq(p, 1, Len(p) + 1 - i)]

\* the last matching ancestor (the outermost directory) instead of the first
FindBackendAncestor_Farthest(anc, files) ==
  LET hits == {i \in 1..Len(anc) : Exists(Join(anc[i], BackendDir), files)}
  IN  IF hits = {} THEN 0
      ELSE CHOOSE i \in hits : \A j \in hits : i >= j

\* Iterator::find over a sequence: index of the first element satisfying the
\* test, 0 when there is none
FindBackendAncestor(anc, files) ==
  LET hits == {i \in 1..Len(anc) : Exists(Join(anc[i], BackendDir), files)}
  IN  IF hits = {} THEN 0
      ELSE CHOOSE i \in hits : \A j \in hits : i <= j

\* std::env::current_dir().unwrap_or_else(|_| PathBuf::from("."))
CurrentDirOrDot(dir) == IF dir = NoPath THEN Dot ELSE dir

determine_project_root(exe, dir, files) ==
  IF exe # NoPath
  THEN LET exe_dir == Parent(exe)
           anc == Ancestors(exe_dir)
           found == FindBackendAncestor(anc, files)
       IN  IF StartsWith(exe_dir, InstalledRoot) THEN InstalledRoot
           ELSE IF found # 0 THEN anc[found]
           ELSE CurrentDirOrDot(dir)
  ELSE CurrentDirOrDot(dir)

\* the interpreter tested before the packaged binary
SelectCommand_VenvFirst(root, files) ==
  LET packaged_backend == Join(root, PackagedName)
      venv_python == Join(root, VenvPython)
  IN  IF Exists(venv_python, files)
      THEN [program |-> venv_python, args |-> ModuleArgs,
            env |-> DaemonEnv, current_dir |-> root]
      ELSE IF Exists(packaged_backend, files)
      THEN [program |-> packaged_backend, args |-> <<>>,
            env |-> DaemonEnv, current_dir |-> root]
      ELSE [program |-> SystemPython, args |-> ModuleArgs,
            env |-> DaemonEnv, current_dir |-> root]

\* the if / else-if / else at lines 101-127: which Command is built
SelectCommand(root, files) ==
  LET packaged_backend == Join(root, PackagedName)
      venv_python == Join(root, VenvPython)
  IN  IF Exists(packaged_backend, files)
      THEN [program |-> packaged_backend, args |-> <<>>,
            env |-> DaemonEnv, current_dir |-> root]
      ELSE IF Exists(venv_python, files)
      THEN [program |-> venv_python, args |-> ModuleArgs,
            env |-> DaemonEnv, current_dir |-> root]
      ELSE [program |-> SystemPython, args |-> ModuleArgs,
            env |-> DaemonEnv, current_dir |-> root]

NoCommand == [program |-> <<>>, args |-> <<>>, env |-> <<>>, current_dir |-> <<>>]

----------------------------------------------------------------------------
(* Inputs: executable location, working directory, filesystem, stale process *)

DevRoot == <<"/", "home", "dev">>
DevTarget == <<"/", "home", "dev", "target">>
UserDir == <<"/", "home", "user">>

ExePaths ==
  { Join(InstalledRoot, <<"talus-tally">>),
    <<"/", "opt", "talus-tally-dev", "app">>,
    Join(DevTarget, <<"debug", "app">>),
    NoPath }

CwdChoices == {UserDir, NoPath}

BackendEntries == {Join(DevRoot, BackendDir), Join(DevTarget, BackendDir)}

CandidateRoots == {InstalledRoot, DevRoot, DevTarget, UserDir, Dot}

FsStates ==
  { B \cup {Join(r, a) : r \in CandidateRoots, a \in A} :
      B \in SUBSET BackendEntries, A \in SUBSET {PackagedName, VenvPython} }

\* a process left over from an earlier run that holds the port: an
\* interpreter-run backend, a packaged backend, or an unrelated program
StaleKinds == {"none", "python", "packaged", "foreign"}

\* pkill -f <pattern>: does the pattern match the stale process's command line
Matches(proc, pattern) ==
  \/ proc = "python" /\ pattern = ReapPatterns[1]
  \/ proc = "packaged" /\ pattern = ReapPatterns[2]

\* appends op to the log, keeping the last two operations
Logged(log, op) ==
  IF Len(log) < 2 THEN Append(log, op) ELSE <<log[2], op>>

----------------------------------------------------------------------------
(* run(): state after construction, before the setup thread has taken a step *)

InitOf(exes, dirs, files) ==
  /\ backend_process = None
  /\ lock_holder = "free"
  /\ poisoned = FALSE
  /\ spc = "reap"
  /\ mpc = "idle"
  /\ cmd = "none"
  /\ app = "running"
  /\ exited_by = "none"
  /\ exit_code = <<>>
  /\ exe_path \in exes
  /\ cwd \in dirs
  /\ fs \in files
  /\ stale \in StaleKinds
  /\ reaped = <<>>
  /\ slept = 0
  /\ project_root = NoPath
  /\ spawn_cmd = NoCommand
  /\ spawn_result = "none"
  /\ spawn_attempts = 0
  /\ child_state = "none"
  /\ kill_calls = 0
  /\ diag = FALSE
  /\ handle_log = <<>>
  /\ last_connect = "none"
  /\ last_status = "none"
  /\ pending_close = 0
  /\ close_requests = 0
  /\ prevent_calls = 0
  /\ emit_calls = 0
  /\ window_open = TRUE
  /\ minimized = FALSE
  /\ maximized = FALSE

\* the supervisor with the UI: an installed and a development executable,
\* over a tree that holds both backend artifacts and one that holds neither
Init ==
  InitOf({Join(InstalledRoot, <<"talus-tally">>), Join(DevTarget, <<"debug", "app">>)},
         {UserDir},
         {F \in FsStates :
            /\ BackendEntries \subseteq F
            /\ Join(DevRoot, PackagedName) \in F <=> Join(DevRoot, VenvPython) \in F})

\* startup alone, over every executable location, working directory and
\* filesystem of the input sets
InitStartup == InitOf(ExePaths, CwdChoices, FsStates)

----------------------------------------------------------------------------
(* start_backend, on its own thread *)

\* a pkill that did not kill a matching process makes start_backend return
start_backend_reap_Abort ==
  /\ app # "ended"
  /\ spc = "reap"
  /\ LET pattern == ReapPatterns[Len(reaped) + 1]
     IN  /\ \E killed \in BOOLEAN :
              /\ stale' = IF killed /\ Matches(stale, pattern) THEN "none" ELSE stale
              /\ reaped' = Append(reaped, pattern)
              /\ spc' = IF ~killed /\ Matches(stale, pattern) THEN "returned"
                        ELSE IF Len(reaped') = Len(ReapPatterns) THEN "settle"
                        ELSE "reap"
  /\ UNCHANGED <<slept, project_root, spawn_cmd, spawn_result, spawn_attempts, diag>>
  /\ UNCHANGED <<lockVars, mpc, cmd, app, exited_by, exit_code, inputVars,
                 child_state, kill_calls, probeVars, windowVars>>

\* one iteration of the pkill loop; the Output is discarded, so a kill that
\* is denied and a pkill that cannot be run both just leave the process alone
start_backend_reap ==
  /\ app # "ended"
  /\ spc = "reap"
  /\ LET pattern == ReapPatterns[Len(reaped) + 1]
     IN  /\ \E killed \in BOOLEAN :
              stale' = IF killed /\ Matches(stale, pattern) THEN "none" ELSE stale
         /\ reaped' = Append(reaped, pattern)
  /\ spc' = IF Len(reaped') = Len(ReapPatterns) THEN "settle" ELSE "reap"
  /\ UNCHANGED <<slept, project_root, spawn_cmd, spawn_result, spawn_attempts, diag>>
  /\ UNCHANGED <<lockVars, mpc, cmd, app, exited_by, exit_code, inputVars, child_state,
                 kill_calls, probeVars, windowVars>>

\* the settle delay left out
start_backend_settle_NoSleep ==
  /\ app # "ended"
  /\ spc = "settle"
  /\ slept' = slept
  /\ spc' = "resolve"
  /\ UNCHANGED <<reaped, project_root, spawn_cmd, spawn_result, spawn_attempts, diag>>
  /\ UNCHANGED <<lockVars, mpc, cmd, app, exited_by, exit_code, inputVars, stale,
                 child_state, kill_calls, probeVars, windowVars>>

\* std::thread::sleep(Duration::from_millis(1000))
start_backend_settle ==
  /\ app # "ended"
  /\ spc = "settle"
  /\ slept' = slept + SettleMs
  /\ spc' = "resolve"
  /\ UNCHANGED <<reaped, project_root, spawn_cmd, spawn_result, spawn_attempts, diag>>
  /\ UNCHANGED <<lockVars, mpc, cmd, app, exited_by, exit_code, inputVars, stale, child_state,
                 kill_calls, probeVars, windowVars>>

\* the lock is taken before the resolution and the spawn
start_backend_resolve_Locked ==
  /\ app # "ended"
  /\ spc = "resolve"
  /\ lock_holder = "free"
  /\ lock_holder' = "start"
  /\ project_root' = determine_project_root(exe_path, cwd, fs)
  /\ spc' = "spawn"
  /\ UNCHANGED <<backend_process, poisoned, handle_log>>
  /\ UNCHANGED <<reaped, slept, spawn_cmd, spawn_result, spawn_attempts, diag>>
  /\ UNCHANGED <<mpc, cmd, app, exited_by, exit_code, inputVars, stale, child_state,
                 kill_calls, probeVars, windowVars>>

\* let project_root = determine_project_root();
start_backend_resolve ==
  /\ app # "ended"
  /\ spc = "resolve"
  /\ project_root' = determine_project_root(exe_path, cwd, fs)
  /\ spc' = "spawn"
  /\ UNCHANGED <<reaped, slept, spawn_cmd, spawn_result, spawn_attempts, diag>>
  /\ UNCHANGED <<lockVars, mpc, cmd, app, exited_by, exit_code, inputVars, stale, child_state,
                 kill_calls, probeVars, windowVars>>

\* the exists() tests and Command::spawn(); the OS decides whether the
\* program can be started
start_backend_spawn ==
  /\ app # "ended"
  /\ spc = "spawn"
  /\ spawn_cmd' = SelectCommand(project_root, fs)
  /\ spawn_attempts' = spawn_attempts + 1
  /\ \E ok \in BOOLEAN :
       IF ok
       THEN /\ spawn_result' = "Ok"
            /\ child_state' = "running"
            /\ spc' = "lock"
       ELSE /\ spawn_result' = "Err"
            /\ child_state' = child_state
            /\ spc' = "report"
  /\ UNCHANGED <<reaped, slept, project_root, diag>>
  /\ UNCHANGED <<lockVars, mpc, cmd, app, exited_by, exit_code, inputVars, stale,
                 kill_calls, probeVars, windowVars>>

\* the handle is written without taking the lock
start_backend_lock_Unlocked ==
  /\ app # "ended"
  /\ spc = "lock"
  /\ spc' = "store"
  /\ UNCHANGED <<backend_process, lock_holder, poisoned, handle_log>>
  /\ UNCHANGED <<reaped, slept, project_root, spawn_cmd, spawn_result, spawn_attempts, diag>>
  /\ UNCHANGED <<mpc, cmd, app, exited_by, exit_code, inputVars, stale, child_state,
                 kill_calls, probeVars, windowVars>>

\* if let Ok(mut proc) = backend_process.lock(): blocks while the guard is
\* held elsewhere; Err(poisoned) skips the block and the function returns
start_backend_lock ==
  /\ app # "ended"
  /\ spc = "lock"
  /\ IF poisoned
     THEN /\ spc' = "returned"
          /\ lock_holder' = lock_holder
     ELSE /\ lock_holder = "free"
          /\ lock_holder' = "start"
          /\ spc' = "store"
  /\ UNCHANGED <<backend_process, poisoned, handle_log>>
  /\ UNCHANGED <<reaped, slept, project_root, spawn_cmd, spawn_result, spawn_attempts, diag>>
  /\ UNCHANGED <<mpc, cmd, app, exited_by, exit_code, inputVars, stale, child_state,
                 kill_calls, probeVars, windowVars>>

\* the child is dropped instead of being stored
start_backend_store_Dropped ==
  /\ app # "ended"
  /\ spc = "store"
  /\ backend_process' = backend_process
  /\ handle_log' = Logged(handle_log, "store")
  /\ spc' = "started"
  /\ UNCHANGED <<lock_holder, poisoned>>
  /\ UNCHANGED <<reaped, slept, project_root, spawn_cmd, spawn_result, spawn_attempts, diag>>
  /\ UNCHANGED <<mpc, cmd, app, exited_by, exit_code, inputVars, stale, child_state,
                 kill_calls, probeVars, windowVars>>

\* *proc = Some(child);
start_backend_store ==
  /\ app # "ended"
  /\ spc = "store"
  /\ backend_process' = ChildId
  /\ handle_log' = Logged(handle_log, "store")
  /\ spc' = "started"
  /\ UNCHANGED <<lock_holder, poisoned>>
  /\ UNCHANGED <<reaped, slept, project_root, spawn_cmd, spawn_result, spawn_attempts, diag>>
  /\ UNCHANGED <<mpc, cmd, app, exited_by, exit_code, inputVars, stale, child_state,
                 kill_calls, probeVars, windowVars>>

\* println!("Backend started successfully") with the guard still held.
\* println! panics when the write to stdout fails; it is the only statement
\* of the program that can panic inside a critical section, hence the only
\* origin of a poisoned mutex.  The panic unwinds the thread: the guard is
\* dropped and marks the mutex poisoned.
start_backend_started ==
  /\ app # "ended"
  /\ spc = "started"
  /\ \E written \in BOOLEAN :
       IF written
       THEN /\ spc' = "unlock"
            /\ UNCHANGED <<lock_holder, poisoned>>
       ELSE /\ spc' = "panicked"
            /\ lock_holder' = "free"
            /\ poisoned' = TRUE
  /\ UNCHANGED <<backend_process, handle_log>>
  /\ UNCHANGED <<reaped, slept, project_root, spawn_cmd, spawn_result, spawn_attempts, diag>>
  /\ UNCHANGED <<mpc, cmd, app, exited_by, exit_code, inputVars, stale, child_state,
                 kill_calls, probeVars, windowVars>>

\* start_backend spawns again after a successful start
start_backend_unlock_Respawn ==
  /\ app # "ended"
  /\ spc = "unlock"
  /\ lock_holder' = "free"
  /\ spc' = "spawn"
  /\ UNCHANGED <<backend_process, poisoned, handle_log>>
  /\ UNCHANGED <<reaped, slept, project_root, spawn_cmd, spawn_result, spawn_attempts, diag>>
  /\ UNCHANGED <<mpc, cmd, app, exited_by, exit_code, inputVars, stale, child_state,
                 kill_calls, probeVars, windowVars>>

\* end of the if-let block drops the guard; nothing follows it, the
\* function returns
start_backend_unlock ==
  /\ app # "ended"
  /\ spc = "unlock"
  /\ lock_holder' = "free"
  /\ spc' = "returned"
  /\ UNCHANGED <<backend_process, poisoned, handle_log>>
  /\ UNCHANGED <<reaped, slept, project_root, spawn_cmd, spawn_result, spawn_attempts, diag>>
  /\ UNCHANGED <<mpc, cmd, app, exited_by, exit_code, inputVars, stale, child_state,
                 kill_calls, probeVars, windowVars>>

\* the Err arm goes back to the spawn instead of returning
start_backend_report_Retry ==
  /\ app # "ended"
  /\ spc = "report"
  /\ diag' = TRUE
  /\ spc' = "spawn"
  /\ UNCHANGED <<reaped, slept, project_root, spawn_cmd, spawn_result, spawn_attempts>>
  /\ UNCHANGED <<lockVars, mpc, cmd, app, exited_by, exit_code, inputVars, stale, child_state,
                 kill_calls, probeVars, windowVars>>

\* Err(e) arm: the four eprintln! lines, then the function returns
start_backend_report ==
  /\ app # "ended"
  /\ spc = "report"
  /\ diag' = TRUE
  /\ spc' = "returned"
  /\ UNCHANGED <<reaped, slept, project_root, spawn_cmd, spawn_result, spawn_attempts>>
  /\ UNCHANGED <<lockVars, mpc, cmd, app, exited_by, exit_code, inputVars, stale, child_state,
                 kill_calls, probeVars, windowVars>>

----------------------------------------------------------------------------
(* Commands and the window-event handler, on the host's main thread *)

\* TcpStream::connect("127.0.0.1:5000"): accepted iff some process listens
TcpConnect(staleProc, child) ==
  IF staleProc # "none" \/ child = "listening" THEN "Ok" ELSE "Err"

\* both arms of the match give true
StatusOf_AlwaysTrue(conn) == "true"

\* the match on the connect result
StatusOf(conn) == IF conn = "Ok" THEN "true" ELSE "false"

\* the answer is taken from the handle instead of the connect result
backend_status_FromHandle ==
  /\ app # "ended"
  /\ mpc = "idle"
  /\ last_connect' = TcpConnect(stale, child_state)
  /\ last_status' = IF backend_process # None THEN "true" ELSE "false"
  /\ UNCHANGED <<lockVars, startVars, mpc, cmd, app, exited_by, exit_code, inputVars, stale,
                 child_state, kill_calls, windowVars>>

backend_status ==
  /\ app # "ended"
  /\ mpc = "idle"
  /\ last_connect' = TcpConnect(stale, child_state)
  /\ last_status' = StatusOf(last_connect')
  /\ UNCHANGED <<lockVars, startVars, mpc, cmd, app, exited_by, exit_code, inputVars, stale,
                 child_state, kill_calls, windowVars>>

minimize_window ==
  /\ app # "ended"
  /\ mpc = "idle"
  /\ window_open
  /\ minimized' = TRUE
  /\ UNCHANGED <<pending_close, close_requests, prevent_calls, emit_calls,
                 window_open, maximized>>
  /\ UNCHANGED <<lockVars, startVars, mpc, cmd, app, exited_by, exit_code, inputVars, stale,
                 child_state, kill_calls, probeVars>>

\* unmaximize when is_maximized() says true, maximize otherwise
maximize_window ==
  /\ app # "ended"
  /\ mpc = "idle"
  /\ window_open
  /\ maximized' = IF maximized THEN FALSE ELSE TRUE
  /\ UNCHANGED <<pending_close, close_requests, prevent_calls, emit_calls,
                 window_open, minimized>>
  /\ UNCHANGED <<lockVars, startVars, mpc, cmd, app, exited_by, exit_code, inputVars, stale,
                 child_state, kill_calls, probeVars>>

\* the command ends the application itself instead of asking the host
close_window_Exit ==
  /\ app # "ended"
  /\ mpc = "idle"
  /\ window_open
  /\ pending_close + close_requests < MaxClose
  /\ pending_close' = pending_close + 1
  /\ app' = "ended"
  /\ UNCHANGED <<close_requests, prevent_calls, emit_calls, window_open,
                 minimized, maximized>>
  /\ UNCHANGED <<lockVars, startVars, mpc, cmd, exited_by, exit_code, inputVars,
                 stale, child_state, kill_calls, probeVars>>

\* the command also takes and kills the backend
close_window_Kills ==
  /\ app # "ended"
  /\ mpc = "idle"
  /\ window_open
  /\ pending_close + close_requests < MaxClose
  /\ pending_close' = pending_close + 1
  /\ lock_holder = "free"
  /\ IF backend_process # None
     THEN /\ backend_process' = None
          /\ kill_calls' = kill_calls + 1
          /\ child_state' = "killed"
     ELSE UNCHANGED <<backend_process, kill_calls, child_state>>
  /\ UNCHANGED <<lock_holder, poisoned, handle_log>>
  /\ UNCHANGED <<close_requests, prevent_calls, emit_calls, window_open,
                 minimized, maximized>>
  /\ UNCHANGED <<startVars, mpc, cmd, app, exited_by, exit_code, inputVars,
                 stale, probeVars>>

\* window.close() asks the host to close the window; the host answers with
\* a CloseRequested event to on_window_event
close_window ==
  /\ app # "ended"
  /\ mpc = "idle"
  /\ window_open
  /\ pending_close + close_requests < MaxClose
  /\ pending_close' = pending_close + 1
  /\ UNCHANGED <<close_requests, prevent_calls, emit_calls, window_open,
                 minimized, maximized>>
  /\ UNCHANGED <<lockVars, startVars, mpc, cmd, app, exited_by, exit_code, inputVars, stale,
                 child_state, kill_calls, probeVars>>

\* the handler without its api.prevent_close() call
on_window_event_NoPrevent(event) ==
  IF event = "CloseRequested"
  THEN [prevent_close |-> 0, emit |-> <<CloseEvent>>]
  ELSE [prevent_close |-> 0, emit |-> <<>>]

\* the closure given to on_window_event: what it does with one event
on_window_event(event) ==
  IF event = "CloseRequested"
  THEN [prevent_close |-> 1, emit |-> <<CloseEvent>>]
  ELSE [prevent_close |-> 0, emit |-> <<>>]

\* the host dispatches one queued close request to on_window_event; a close
\* that the handler did not prevent closes the window, and closing the only
\* window makes the host exit
close_requested ==
  /\ app # "ended"
  /\ mpc = "idle"
  /\ pending_close > 0
  /\ LET handled == on_window_event("CloseRequested")
     IN  /\ pending_close' = pending_close - 1
         /\ close_requests' = close_requests + 1
         /\ prevent_calls' = prevent_calls + handled.prevent_close
         /\ emit_calls' = emit_calls + Len(handled.emit)
         /\ window_open' = IF handled.prevent_close > 0 THEN window_open ELSE FALSE
         /\ app' = IF handled.prevent_close > 0 THEN app ELSE "exiting"
  /\ UNCHANGED <<minimized, maximized>>
  /\ UNCHANGED <<lockVars, startVars, mpc, cmd, exited_by, exit_code, inputVars, stale,
                 child_state, kill_calls, probeVars>>

\* state.0.lock().unwrap(): a poisoned mutex panics the handler
TerminateLock_Unwrap(c) ==
  /\ app # "ended"
  /\ cmd = c
  /\ mpc = "lock"
  /\ IF poisoned
     THEN /\ mpc' = "panicked"
          /\ lock_holder' = lock_holder
     ELSE /\ lock_holder = "free"
          /\ lock_holder' = "main"
          /\ mpc' = "take"
  /\ UNCHANGED <<backend_process, poisoned, handle_log>>
  /\ UNCHANGED <<startVars, cmd, app, exited_by, exit_code, inputVars, stale, child_state,
                 kill_calls, probeVars, windowVars>>

\* the terminate step shared by exit_app and force_close_window:
\* if let Ok(mut proc) = state.0.lock()
TerminateLock(c) ==
  /\ app # "ended"
  /\ cmd = c
  /\ mpc = "lock"
  /\ IF poisoned
     THEN /\ mpc' = "exit"
          /\ lock_holder' = lock_holder
     ELSE /\ lock_holder = "free"
          /\ lock_holder' = "main"
          /\ mpc' = "take"
  /\ UNCHANGED <<backend_process, poisoned, handle_log>>
  /\ UNCHANGED <<startVars, cmd, app, exited_by, exit_code, inputVars, stale, child_state,
                 kill_calls, probeVars, windowVars>>

\* proc.as_mut() in place of proc.take(): the child is killed, the handle kept
TerminateTake_NoClear(c) ==
  /\ app # "ended"
  /\ cmd = c
  /\ mpc = "take"
  /\ IF backend_process # None
     THEN /\ backend_process' = backend_process
          /\ kill_calls' = kill_calls + 1
          /\ child_state' = "killed"
          /\ handle_log' = Logged(handle_log, "kill")
     ELSE /\ UNCHANGED <<backend_process, kill_calls, child_state>>
          /\ handle_log' = Logged(handle_log, "noop")
  /\ mpc' = "unlock"
  /\ UNCHANGED <<lock_holder, poisoned>>
  /\ UNCHANGED <<startVars, cmd, app, exited_by, exit_code, inputVars, stale,
                 probeVars, windowVars>>

\* if let Some(mut child) = proc.take() { let _ = child.kill(); }
TerminateTake(c) ==
  /\ app # "ended"
  /\ cmd = c
  /\ mpc = "take"
  /\ IF backend_process # None
     THEN /\ backend_process' = None
          /\ kill_calls' = kill_calls + 1
          /\ child_state' = "killed"
          /\ handle_log' = Logged(handle_log, "kill")
     ELSE /\ UNCHANGED <<backend_process, kill_calls, child_state>>
          /\ handle_log' = Logged(handle_log, "noop")
  /\ mpc' = "unlock"
  /\ UNCHANGED <<lock_holder, poisoned>>
  /\ UNCHANGED <<startVars, cmd, app, exited_by, exit_code, inputVars, stale,
                 probeVars, windowVars>>

\* the guard is dropped at the end of the if-let block
TerminateUnlock(c) ==
  /\ app # "ended"
  /\ cmd = c
  /\ mpc = "unlock"
  /\ lock_holder' = "free"
  /\ mpc' = "exit"
  /\ UNCHANGED <<backend_process, poisoned, handle_log>>
  /\ UNCHANGED <<startVars, cmd, app, exited_by, exit_code, inputVars, stale, child_state,
                 kill_calls, probeVars, windowVars>>

\* the UI layer invokes a command that runs the terminate step
InvokeExitCommand(c) ==
  /\ app # "ended"
  /\ mpc = "idle"
  /\ cmd' = c
  /\ mpc' = "lock"
  /\ UNCHANGED <<lockVars, startVars, app, exited_by, exit_code, inputVars, stale,
                 child_state, kill_calls, probeVars, windowVars>>

exit_app == InvokeExitCommand("exit_app")
exit_app_lock == TerminateLock("exit_app")
exit_app_take == TerminateTake("exit_app")
exit_app_unlock == TerminateUnlock("exit_app")

\* the exit command also stops the startup thread where it stands
exit_app_exit_Abort ==
  /\ app # "ended"
  /\ cmd = "exit_app"
  /\ mpc = "exit"
  /\ app' = "exiting"
  /\ exited_by' = "exit_app"
  /\ exit_code' = <<0>>
  /\ mpc' = "idle"
  /\ cmd' = "none"
  /\ spc' = "returned"
  /\ UNCHANGED <<reaped, slept, project_root, spawn_cmd, spawn_result, spawn_attempts, diag>>
  /\ UNCHANGED <<lockVars, inputVars, stale, child_state,
                 kill_calls, probeVars, windowVars>>

\* app.exit(0): asks the host's event loop to exit and returns
exit_app_exit ==
  /\ app # "ended"
  /\ cmd = "exit_app"
  /\ mpc = "exit"
  /\ app' = "exiting"
  /\ exited_by' = "exit_app"
  /\ exit_code' = <<0>>
  /\ mpc' = "idle"
  /\ cmd' = "none"
  /\ UNCHANGED <<lockVars, startVars, inputVars, stale, child_state,
                 kill_calls, probeVars, windowVars>>

force_close_window == InvokeExitCommand("force_close_window")
force_close_window_lock == TerminateLock("force_close_window")
force_close_window_take == TerminateTake("force_close_window")
force_close_window_unlock == TerminateUnlock("force_close_window")

\* app.exit(0) in place of std::process::exit(0)
force_close_window_exit_ViaHost ==
  /\ app # "ended"
  /\ cmd = "force_close_window"
  /\ mpc = "exit"
  /\ app' = "exiting"
  /\ exited_by' = "force_close_window"
  /\ exit_code' = <<0>>
  /\ mpc' = "idle"
  /\ cmd' = "none"
  /\ UNCHANGED <<lockVars, startVars, inputVars, stale, child_state,
                 kill_calls, probeVars, windowVars>>

\* std::process::exit(0): the process, all its threads included, ends here
force_close_window_exit ==
  /\ app # "ended"
  /\ cmd = "force_close_window"
  /\ mpc = "exit"
  /\ app' = "ended"
  /\ exited_by' = "force_close_window"
  /\ exit_code' = <<0>>
  /\ UNCHANGED <<mpc, cmd>>
  /\ UNCHANGED <<lockVars, startVars, inputVars, stale, child_state,
                 kill_calls, probeVars, windowVars>>

\* the host's event loop honours an exit request between two handlers:
\* run() returns and the process ends, whatever start_backend is doing
host_exit ==
  /\ app = "exiting"
  /\ mpc = "idle"
  /\ app' = "ended"
  /\ UNCHANGED <<lockVars, startVars, mpc, cmd, exited_by, exit_code, inputVars, stale,
                 child_state, kill_calls, probeVars, windowVars>>

----------------------------------------------------------------------------
(* Environment *)

\* the user (or the window manager) asks for the window to be closed
host_close_request ==
  /\ app # "ended"
  /\ window_open
  /\ pending_close + close_requests < MaxClose
  /\ pending_close' = pending_close + 1
  /\ UNCHANGED <<close_requests, prevent_calls, emit_calls, window_open,
                 minimized, maximized>>
  /\ UNCHANGED <<lockVars, startVars, mpc, cmd, app, exited_by, exit_code, inputVars, stale,
                 child_state, kill_calls, probeVars>>

\* the spawned backend binds 127.0.0.1:5000, which needs the port to be free
backend_binds ==
  /\ app # "ended"
  /\ child_state = "running"
  /\ stale = "none"
  /\ child_state' = "listening"
  /\ UNCHANGED <<lockVars, startVars, mpc, cmd, app, exited_by, exit_code, inputVars, stale,
                 kill_calls, probeVars, windowVars>>

----------------------------------------------------------------------------

StartBackendStep ==
  \/ start_backend_reap
  \/ start_backend_settle
  \/ start_backend_resolve
  \/ start_backend_spawn
  \/ start_backend_lock
  \/ start_backend_store
  \/ start_backend_started
  \/ start_backend_unlock
  \/ start_backend_report

Next ==
  \/ start_backend_reap
  \/ start_backend_settle
  \/ start_backend_resolve
  \/ start_backend_spawn
  \/ start_backend_lock
  \/ start_backend_store
  \/ start_backend_started
  \/ start_backend_unlock
  \/ start_backend_report
  \/ backend_status
  \/ minimize_window
  \/ maximize_window
  \/ close_window
  \/ close_requested
  \/ exit_app
  \/ exit_app_lock
  \/ exit_app_take
  \/ exit_app_unlock
  \/ exit_app_exit
  \/ force_close_window
  \/ force_close_window_lock
  \/ force_close_window_take
  \/ force_close_window_unlock
  \/ force_close_window_exit
  \/ host_exit
  \/ host_close_request
  \/ backend_binds

Spec == Init /\ [][Next]_vars

\* the start_backend thread before the UI layer issues any command
NextStartup == StartBackendStep \/ backend_binds

SpecStartup == InitStartup /\ [][NextStartup]_vars

\* a step of the main thread inside an exit command, after its invocation
ExitCommandStep ==
  \/ exit_app_lock
  \/ exit_app_take
  \/ exit_app_unlock
  \/ exit_app_exit
  \/ force_close_window_lock
  \/ force_close_window_take
  \/ force_close_window_unlock
  \/ force_close_window_exit

\* startup and the exit commands alone
NextExit ==
  \/ StartBackendStep
  \/ exit_app
  \/ force_close_window
  \/ ExitCommandStep
  \/ host_exit
  \/ backend_binds

\* the OS runs a thread that can take a step: the start_backend thread, and
\* the main thread once it is inside a command.  Nothing makes the UI layer
\* invoke a command, the host finish its teardown, or the backend bind.
SpecExit ==
  /\ Init
  /\ [][NextExit]_vars
  /\ WF_vars(StartBackendStep)
  /\ WF_vars(ExitCommandStep)

----------------------------------------------------------------------------
(* Properties *)

\* the application-exit call of either exit command
ExitCall == exit_app_exit \/ force_close_window_exit

\* what a terminate step writes to the handle log
TerminateOps == {"kill", "noop"}

\* C1: on every exit path the terminate step comes before the
\* application-exit call, and when the exit call is issued the backend
\* process handle is empty, whatever the start_backend thread does
\* meanwhile.  Stated for the runs in which the mutex is not poisoned, where
\* the terminate step did take the lock.
C1_HandleEmptyAtExitCall ==
  [][(ExitCall /\ ~poisoned) => backend_process = None]_vars

\* C2: when the application process has ended, every backend child that
\* start_backend spawned has been killed.  Stated for the runs in which the
\* mutex is not poisoned.
C2_NoOrphanAtExit ==
  (app = "ended" /\ ~poisoned) => child_state \notin {"running", "listening"}

\* C3: a terminate step that follows another terminate step with no store in
\* between, or that runs before any store, finds the handle empty, issues no
\* kill and leaves the handle empty; the child is never killed twice.
C3_TerminateIdempotent ==
  /\ (/\ Len(handle_log) = 2
      /\ handle_log[1] \in TerminateOps
      /\ handle_log[2] \in TerminateOps)
       => (handle_log[2] = "noop" /\ backend_process = None)
  /\ (Len(handle_log) = 1 /\ handle_log[1] \in TerminateOps)
       => (handle_log[1] = "noop" /\ backend_process = None /\ kill_calls = 0)
  /\ kill_calls <= 1
  /\ mpc \in {"idle", "lock", "take", "unlock", "exit"}

\* a second terminate step has run right after one that killed the child
C3_Witness ==
  /\ handle_log = <<"kill", "noop">>
  /\ kill_calls = 1
  /\ backend_process = None

\* C4: every close request dispatched to the handler has its default close
\* prevented and is forwarded as exactly one tauri://close-requested event;
\* the handler itself never closes the window, ends the application or
\* touches the backend.
C4_CloseRequestedForwardedOnce ==
  /\ [](prevent_calls = close_requests /\ emit_calls = close_requests)
  /\ [][close_requested =>
          /\ prevent_calls' = prevent_calls + 1
          /\ emit_calls' = emit_calls + 1
          /\ window_open' = window_open
          /\ app' = app
          /\ backend_process' = backend_process
          /\ kill_calls' = kill_calls
          /\ child_state' = child_state]_vars

\* two close requests were handled and the window and application live on
C4_Witness ==
  /\ close_requests = 2
  /\ emit_calls = 2
  /\ window_open
  /\ app = "running"

\* C5: once the spawn has been attempted, exactly one command was spawned,
\* chosen over the resolved root by first match: the packaged binary when it
\* exists, else the virtualenv interpreter with -m backend.app when it
\* exists, else python3 with -m backend.app.
C5_CandidatePriority ==
  spawn_attempts > 0 =>
    LET packaged == Join(project_root, PackagedName)
        venv == Join(project_root, VenvPython)
    IN  /\ spawn_attempts = 1
        /\ packaged \in fs =>
             (spawn_cmd.program = packaged /\ spawn_cmd.args = <<>>)
        /\ (packaged \notin fs /\ venv \in fs) =>
             (spawn_cmd.program = venv /\ spawn_cmd.args = <<"-m", "backend.app">>)
        /\ (packaged \notin fs /\ venv \notin fs) =>
             (spawn_cmd.program = <<"python3">>
              /\ spawn_cmd.args = <<"-m", "backend.app">>)

\* both artifacts exist and the packaged binary was spawned
C5_Witness ==
  /\ spawn_attempts = 1
  /\ Join(project_root, PackagedName) \in fs
  /\ Join(project_root, VenvPython) \in fs
  /\ spawn_cmd.program = Join(project_root, PackagedName)

\* C6: after a successful spawn the child is stored in the handle while the
\* start thread holds the lock, and when start_backend returns the handle
\* is present and is the spawned child.
C6_ChildStoredUnderLock ==
  /\ [](spc \in {"started", "unlock"} =>
          (lock_holder = "start" /\ backend_process = ChildId))
  /\ [][(spc = "store" /\ spc' # spc) =>
          (lock_holder = "start" /\ child_state # "none"
           /\ backend_process' = ChildId)]_vars
  /\ [][(spc # "returned" /\ spc' = "returned" /\ spawn_result = "Ok") =>
          backend_process' = ChildId]_vars

\* start_backend has returned after a successful spawn, the handle holds
\* the child
C6_Witness ==
  /\ spc = "returned"
  /\ spawn_result = "Ok"
  /\ backend_process = ChildId
  /\ lock_holder = "free"

\* C7: after a failed spawn the handle stays unset, the diagnostic is
\* written, the start thread neither panics nor changes the application's
\* state, and spawn is attempted at most once in a run.
C7_SpawnFailureNonFatal ==
  /\ [](spawn_attempts <= 1)
  /\ [](spawn_result = "Err" =>
          /\ backend_process = None
          /\ child_state = "none"
          /\ spc \in {"report", "returned"}
          /\ (spc = "returned" => diag))
  /\ [][StartBackendStep => (app' = app /\ exited_by' = exited_by)]_vars

\* the spawn failed, start_backend returned and the application runs on
C7_Witness ==
  /\ spawn_result = "Err"
  /\ spc = "returned"
  /\ diag
  /\ app = "running"

\* C8 as stated: backend_status is true iff the connect succeeds, and is
\* false whenever no backend has been started.
C8_FalseWithoutBackend ==
  last_status # "none" =>
    /\ (last_status = "true" <=> last_connect = "Ok")
    /\ (child_state = "none" => last_status = "false")

\* C8 amended: backend_status is true iff the connect succeeds, the connect
\* succeeds iff some process listens on the port, the answer is false when
\* nothing listens there, and the call leaves the handle alone.
C8_StatusIffConnect ==
  [][backend_status =>
      /\ last_status' \in {"true", "false"}
      /\ (last_status' = "true" <=> last_connect' = "Ok")
      /\ (last_connect' = "Ok" <=> (stale # "none" \/ child_state = "listening"))
      /\ ((child_state = "none" /\ stale = "none") => last_status' = "false")
      /\ backend_process' = backend_process]_vars

\* a call answered true although no backend was started: a process of an
\* earlier run holds the port
C8_Witness ==
  /\ last_status = "true"
  /\ last_connect = "Ok"
  /\ child_state = "none"
  /\ backend_process = None

\* C9 as stated, in the case a finite run decides: when the backend failed
\* to start, and so never binds the port, no call of backend_status is
\* answered true.
C9_FalseWhenNeverBound ==
  spawn_result = "Err" => last_status # "true"

\* C9 amended: a call made while the spawned backend is bound to the port
\* is answered true, and a call made while neither the spawned backend nor
\* any other process listens on the port is answered false.
C9_StatusFollowsPort ==
  [][backend_status =>
      /\ (child_state = "listening" => last_status' = "true")
      /\ ((child_state # "listening" /\ stale = "none") => last_status' = "false")]_vars

\* start_backend succeeded, the backend bound the port, a call said true
C9_Witness ==
  /\ spc = "returned"
  /\ spawn_result = "Ok"
  /\ child_state = "listening"
  /\ last_status = "true"

\* C10: when the mutex is poisoned, the lock attempt of an exit command
\* does not panic, skips the take and the kill, leaves the handle as it is,
\* and the command goes on to its application-exit call.
C10_PoisonedLockSkipped ==
  /\ [][(mpc = "lock" /\ poisoned /\ mpc' # mpc) =>
          /\ mpc' = "exit"
          /\ backend_process' = backend_process
          /\ kill_calls' = kill_calls
          /\ child_state' = child_state
          /\ lock_holder' = lock_holder]_vars
  /\ [](poisoned => mpc \notin {"take", "unlock", "panicked"})
  /\ []((mpc = "exit" /\ app # "ended") => ENABLED ExitCall)

\* the mutex was poisoned with the child in the handle; an exit command,
\* the only operation on the handle being the store, has skipped the take
\* and the kill and stands at its exit call
C10_Witness ==
  /\ poisoned
  /\ mpc = "exit"
  /\ handle_log = <<"store">>
  /\ backend_process = ChildId
  /\ kill_calls = 0

\* C11: the application process ends only through exit_app (whose exit
\* request the host then honours) or force_close_window; close_window, a
\* close request, minimize_window, maximize_window, backend_status and
\* every step of start_backend leave the application's state as it is.
C11_EndedOnlyByExitCommand ==
  /\ [](app # "running" => exited_by \in {"exit_app", "force_close_window"})
  /\ [][app' # app =>
          \/ exit_app_exit
          \/ force_close_window_exit
          \/ (host_exit /\ exited_by = "exit_app")]_vars
  /\ [][(\/ close_window
          \/ close_requested
          \/ host_close_request
          \/ minimize_window
          \/ maximize_window
          \/ backend_status
          \/ StartBackendStep) => app' = app]_vars

\* the process has ended after close requests were handled, a status call
\* was answered and start_backend had returned
C11_Witness ==
  /\ app = "ended"
  /\ exited_by # "none"
  /\ close_requests > 0
  /\ last_status # "none"
  /\ spc = "returned"

\* C12: a force_close_window that has been invoked always reaches its exit
\* call, whatever start_backend does and without any step of the host; that
\* call is the OS exit with status 0 and ends the process at once.  exit_app
\* hands status 0 to the host's exit call, and the host ends the process.
C12_ForceCloseAlwaysExits ==
  /\ (cmd = "force_close_window") ~> (app = "ended")
  /\ [][force_close_window_exit =>
          (app' = "ended" /\ exit_code' = <<0>>)]_vars
  /\ [][exit_app_exit =>
          (app' = "exiting" /\ exit_code' = <<0>>)]_vars
  /\ [](app = "ended" => exit_code = <<0>>)
  /\ []((app = "ended" /\ exited_by = "exit_app") => cmd = "none")

\* force_close_window ended the process while start_backend was waiting
\* for the lock
C12_Witness ==
  /\ app = "ended"
  /\ exited_by = "force_close_window"
  /\ exit_code = <<0>>
  /\ spc = "lock"

\* C13: once resolved, the project root is /opt/talus-tally when the
\* executable's directory lies under /opt/talus-tally; otherwise the deepest
\* directory, from the executable's directory upward, that holds a
\* "backend" entry; otherwise, and when the executable path is unknown, the
\* current working directory ("." when that is unknown too).  Resolution
\* always yields a path.
C13_ProjectRootPriority ==
  /\ spc \notin {"reap", "settle", "resolve"} => project_root # NoPath
  /\ project_root # NoPath =>
       LET known == exe_path # NoPath
           dir == IF known THEN SubSeq(exe_path, 1, Len(exe_path) - 1) ELSE <<>>
           installed == /\ known
                        /\ Len(dir) >= 3
                        /\ dir[1] = "/" /\ dir[2] = "opt" /\ dir[3] = "talus-tally"
           holders == {k \in 1..Len(dir) : SubSeq(dir, 1, k) \o <<"backend">> \in fs}
           deepest == CHOOSE k \in holders : \A j \in holders : j <= k
           working == IF cwd = NoPath THEN <<".">> ELSE cwd
       IN  /\ installed => project_root = <<"/", "opt", "talus-tally">>
           /\ (known /\ ~installed /\ holders # {}) =>
                project_root = SubSeq(dir, 1, deepest)
           /\ (~known \/ (~installed /\ holders = {})) => project_root = working

\* two ancestors of the executable's directory hold a backend entry and the
\* nearer one was chosen
C13_Witness ==
  /\ exe_path = Join(DevTarget, <<"debug", "app">>)
  /\ BackendEntries \subseteq fs
  /\ project_root = DevTarget
  /\ spc = "spawn"

\* C14: the settle delay is slept only after both reaper commands have
\* returned, the root is resolved only after the full 1000 ms, and the spawn
\* is attempted only after all three.
C14_StartupOrder ==
  /\ slept > 0 => reaped = <<"python.*backend.app", "talus-tally-backend">>
  /\ slept \in {0, 1000}
  /\ project_root # NoPath => slept = 1000
  /\ spawn_attempts > 0 =>
       /\ reaped = <<"python.*backend.app", "talus-tally-backend">>
       /\ slept = 1000
       /\ project_root # NoPath
  /\ spc \in {"settle", "resolve", "spawn"} => spawn_attempts = 0

\* the spawn was attempted, after the reaper, the delay and the resolution
C14_Witness ==
  /\ spawn_attempts = 1
  /\ slept = 1000
  /\ Len(reaped) = 2
  /\ project_root # NoPath

\* C15: whatever a reaper command does (kills a matching process, matches
\* none, is denied or cannot be run), start_backend goes on to the next
\* step with nothing else changed, the settle delay, the resolution and the
\* spawn can then run, and the command spawned is the one the inputs alone
\* determine.
C15_ReaperOutcomeIgnored ==
  /\ [][start_backend_reap =>
          /\ spc' = IF Len(reaped') = 2 THEN "settle" ELSE "reap"
          /\ UNCHANGED <<slept, project_root, spawn_cmd, spawn_result,
                         spawn_attempts, diag, exe_path, cwd, fs, app,
                         backend_process, lock_holder, poisoned>>]_vars
  /\ []((app # "ended" /\ spc = "settle") => ENABLED start_backend_settle)
  /\ []((app # "ended" /\ spc = "resolve") => ENABLED start_backend_resolve)
  /\ []((app # "ended" /\ spc = "spawn") => ENABLED start_backend_spawn)
  /\ [](spawn_attempts > 0 =>
          spawn_cmd = SelectCommand(determine_project_root(exe_path, cwd, fs), fs))

\* a process matching a reaper pattern survived the reaper and the spawn
\* was attempted all the same
C15_Witness ==
  /\ stale \in {"python", "packaged"}
  /\ Len(reaped) = 2
  /\ spawn_attempts = 1
  /\ spawn_result = "Ok"

\* C16: a thread stands at a read or write of the handle exactly when it
\* holds the mutex, the two threads are never both there, and the handle
\* changes only in a step taken with the mutex held.
C16_HandleAccessUnderLock ==
  /\ [](spc \in {"store", "started", "unlock"} <=> lock_holder = "start")
  /\ [](mpc \in {"take", "unlock"} <=> lock_holder = "main")
  /\ [](~(spc \in {"store", "started", "unlock"} /\ mpc \in {"take", "unlock"}))
  /\ [][backend_process' # backend_process =>
          (lock_holder # "free" /\ lock_holder' = lock_holder)]_vars

\* start_backend is about to store under the lock while exit_app waits for
\* the lock
C16_Witness ==
  /\ spc = "store"
  /\ lock_holder = "start"
  /\ mpc = "lock"
  /\ cmd = "exit_app"

\* C17: start_backend does not hold the lock while it reaps, sleeps,
\* resolves the root, spawns or waits for the lock, so an exit command that
\* reaches its lock attempt in one of the first four phases finds the mutex
\* free and can take it at once.
C17_NoLockDuringStartup ==
  /\ spc \in {"reap", "settle", "resolve", "spawn", "lock", "report"} =>
       lock_holder # "start"
  /\ (/\ app # "ended"
      /\ mpc = "lock"
      /\ spc \in {"reap", "settle", "resolve", "spawn"}) =>
       /\ lock_holder = "free"
       /\ ~poisoned
       /\ ENABLED (exit_app_lock \/ force_close_window_lock)

\* an exit command holds the lock while start_backend is in its settle delay
C17_Witness ==
  /\ spc = "settle"
  /\ mpc = "take"
  /\ lock_holder = "main"

\* C18: spawn is attempted at most once and a finished start_backend is
\* never started again, so at most one child of this run exists; the handle
\* goes from empty to present only in the store step and only if it was
\* never present before, and a present handle is only ever emptied, never
\* replaced.
C18_SingleChild ==
  /\ [](spawn_attempts <= 1 /\ (child_state # "none" => spawn_attempts = 1))
  /\ [][(backend_process = None /\ backend_process' # None) =>
          (start_backend_store /\ kill_calls = 0
           /\ \A i \in 1..Len(handle_log) : handle_log[i] = "noop")]_vars
  /\ [][backend_process # None =>
          backend_process' \in {backend_process, None}]_vars
  /\ [][(spc \in {"returned", "panicked"}) => (spc' = spc)]_vars

\* the one child of the run is in the handle and listening, start_backend
\* has returned
C18_Witness ==
  /\ backend_process = ChildId
  /\ spawn_attempts = 1
  /\ spc = "returned"
  /\ child_state = "listening"

\* start_backend has run to completion: the handle was stored or the
\* failure diagnostic was written
Completed ==
  \/ diag
  \/ (spawn_result = "Ok" /\ spc \in {"started", "unlock", "returned", "panicked"})

\* C19 as stated, in the form a finite run decides: when the process has
\* ended, start_backend had run to completion, also when an exit command
\* came during its reap, settle or spawn phase.
C19_CompletedWhenEnded ==
  app = "ended" => Completed

\* C19 amended: no command, handler or host step changes the progress of
\* start_backend, and as long as the process lives a start_backend that has
\* not returned can take its next step, unless it waits for the lock while
\* an exit command holds it.
C19_NeverCancelledWhileAlive ==
  /\ [][spc' # spc => StartBackendStep]_vars
  /\ [][(exit_app \/ force_close_window \/ ExitCommandStep \/ host_exit) =>
          UNCHANGED startVars]_vars
  /\ []((/\ app # "ended"
         /\ spc \notin {"returned", "panicked"}
         /\ ~(spc = "lock" /\ lock_holder = "main")) => ENABLED StartBackendStep)
  /\ [](spc = "returned" => Completed)

\* exit_app ran its terminate step before the store and made its exit
\* call; start_backend went on, stored the child and returned
C19_Witness ==
  /\ handle_log = <<"noop", "store">>
  /\ app = "exiting"
  /\ exited_by = "exit_app"
  /\ spc = "returned"

\* C20: the handle changes only in the store step of start_backend, from
\* empty to the child, and in the take step of exit_app or
\* force_close_window, from the child to empty; a kill is issued only in
\* that take step; backend_status, minimize_window, maximize_window,
\* close_window and the close-request handler change neither the handle
\* nor the mutex nor the child.
C20_HandleFrame ==
  /\ [][backend_process' # backend_process =>
          \/ /\ start_backend_store
             /\ backend_process = None
             /\ backend_process' = ChildId
          \/ /\ exit_app_take \/ force_close_window_take
             /\ backend_process = ChildId
             /\ backend_process' = None]_vars
  /\ [][kill_calls' # kill_calls =>
          (exit_app_take \/ force_close_window_take)]_vars
  /\ [][(\/ backend_status
          \/ minimize_window
          \/ maximize_window
          \/ close_window
          \/ close_requested) =>
          UNCHANGED <<backend_process, kill_calls, child_state,
                      lock_holder, poisoned>>]_vars

\* every one of the five operations has acted and the child is still in
\* the handle, not killed
C20_Witness ==
  /\ minimized
  /\ maximized
  /\ last_status # "none"
  /\ close_requests = 1
  /\ pending_close = 1
  /\ backend_process = ChildId
  /\ kill_calls = 0
  /\ child_state = "listening"

====
